---- MODULE Spec2Model ----
(***************************************************************************)
(* fs4: advisory whole-file locks over flock(2), with the fcntl(2)-based   *)
(* emulation used on Solaris.  The library keeps no state of its own: the  *)
(* state below is the operating system's (descriptor table, lock tables,   *)
(* calls suspended in the kernel) as driven through the library's          *)
(* functions, plus a record of the library call that returned last.         *)
(***************************************************************************)
EXTENDS Integers, FiniteSets, Sequences, TLC

\* ------------------------------------------------------------------ bounds
\* References (std::fs::File / smol::fs::File values) that can be open at once.
MaxRefs == 3
\* OS threads (in the async variants: executor worker threads) making the calls.
NumThreads == 2

Refs == 1..MaxRefs
Threads == 1..NumThreads

\* ------------------------------------------------------- libc vocabulary
\* flock(2) operation bits; a flag word is the set of bits that are set in it
\* (a | b is the union, flag & LOCK_NB the membership test, flag & !LOCK_NB the
\* set difference).
LOCK_SH == "LOCK_SH"
LOCK_EX == "LOCK_EX"
LOCK_NB == "LOCK_NB"
LOCK_UN == "LOCK_UN"

\* fcntl(2) commands and record-lock types of the Solaris emulation.
F_SETLK == "F_SETLK"
F_SETLKW == "F_SETLKW"
F_RDLCK == "F_RDLCK"
F_WRLCK == "F_WRLCK"
F_UNLCK == "F_UNLCK"

\* errno values.  EAGAIN and EWOULDBLOCK are the same number on every target
\* of the crate.
EWOULDBLOCK == "EWOULDBLOCK"
EAGAIN == EWOULDBLOCK
EACCES == "EACCES"
EINTR == "EINTR"
EINVAL == "EINVAL"
EMFILE == "EMFILE"
\* errno slot of a call that returned 0
NoErrno == "0"

\* Lock modes as the kernel tables hold them.
None == "None"
Shared == "Shared"
Exclusive == "Exclusive"

\* The thread a reference's calls are made from, and that thread's process.
\* The library functions are plain (non-async) functions in every variant, so
\* the calling thread is the one that enters the kernel.
ThreadOf(r) == ((r - 1) % NumThreads) + 1
PidOf(r) == ThreadOf(r)

\* The values of platform under which fcntl record locks are in use: the
\* Solaris build, and "both", the two builds of flock driven side by side by the
\* same calls.
FcntlBuilds == {"solaris", "both"}

VARIABLES
    platform,   \* the build target: "flock": cfg(not(target_os = "solaris")),
                \* "solaris": the emulation; for allocate, one of AllocTargets
    ofd,        \* ofd[r]: open file description of reference r, 0 when closed
    flocks,     \* flock table: mode held by each open file description
    plocks,     \* fcntl record-lock table: mode held by each process
    call,       \* call[r]: the library call of r suspended in the kernel
    last,       \* the library call that returned last
    file,       \* the file allocate works on: logical size and allocated blocks
    os_error,   \* the calling thread's errno, as last_os_error() reads it
    alast,      \* the allocate call that returned last
    wlocks      \* Windows: the byte-range locks on the file, by the handle that
                \* placed them, and those left behind by closed handles

vars == <<platform, ofd, flocks, plocks, call, last, file, os_error, alast, wlocks>>

\* What the lock functions, open, duplicate and close leave alone.
fsvars == <<file, os_error, alast>>
\* What allocate leaves alone.
lockvars == <<ofd, flocks, plocks, call, last, wlocks>>

Idle == [op |-> "none", flag |-> {}]

\* The FD_CLOEXEC flag of a descriptor handed to duplicate and of the one it
\* returns; NoFlags in a call that is no duplicate.
NoFlags == [orig |-> FALSE, dup |-> FALSE]

\* The fcntl request of a call that made none.
NoFcntl == [cmd |-> "none", l_type |-> "none", l_whence |-> 0, l_start |-> 0, l_len |-> 0]

NoCall == [ref |-> 0, op |-> "none", res |-> "Ok", native |-> NoErrno,
           cause |-> "none", nsys |-> 0, waited |-> FALSE, pre |-> None, new |-> 0,
           cloexec |-> NoFlags, flag |-> {}, fcntl |-> NoFcntl]

\* ------------------------------------------------------------ the kernel
OpenRefs == {r \in Refs : ofd[r] # 0}
RefsOf(o) == {r \in Refs : ofd[r] = o}

\* The thread of r is not inside a (blocking) library call.
ThreadFree(t) == \A r \in Refs : ThreadOf(r) = t => call[r] = Idle

\* Two modes conflict unless both are Shared.
ModesConflict(want, have) == have # None /\ (want = Exclusive \/ have = Exclusive)

\* flock(2): a request of open file description o conflicts with locks of the others.
FlockConflict(table, o, want) ==
    \E o2 \in DOMAIN table : o2 # o /\ ModesConflict(want, table[o2])

\* fcntl(2) record locks: a request of process p conflicts with locks of the others.
FcntlConflict(table, p, want) ==
    \E p2 \in DOMAIN table : p2 # p /\ ModesConflict(want, table[p2])

ModeOfFlag(flag) == IF LOCK_EX \in flag THEN Exclusive
                    ELSE IF LOCK_SH \in flag THEN Shared ELSE None

\* What a lock request gets from the kernel at entry.
KOk(table) == [table |-> table, sleep |-> FALSE, errno |-> NoErrno, cause |-> "none"]
KSleep(table) == [table |-> table, sleep |-> TRUE, errno |-> NoErrno, cause |-> "none"]
KBusy(table, errno) == [table |-> table, sleep |-> FALSE, errno |-> errno, cause |-> "contention"]

\* KFlock without the conflict check: every request is granted.
KFlock_NoConflictCheck(table, o, flag) ==
    IF LOCK_UN \in flag THEN KOk([table EXCEPT ![o] = None])
    ELSE KOk([table EXCEPT ![o] = ModeOfFlag(flag)])

\* KFlock converting in the manner of fcntl: the own lock is kept while the
\* request is refused or waits.
KFlock_KeepOnConflict(table, o, flag) ==
    LET want == ModeOfFlag(flag)
        dropped == [table EXCEPT ![o] = None]
    IN  IF LOCK_UN \in flag THEN KOk(dropped)
        ELSE IF table[o] = want THEN KOk(table)
        ELSE IF FlockConflict(dropped, o, want)
        THEN IF LOCK_NB \in flag THEN KBusy(table, EWOULDBLOCK) ELSE KSleep(table)
        ELSE KOk([dropped EXCEPT ![o] = want])

\* The kernel's flock(fd, flag) at entry.  A lock of the same description and
\* the same type is left as it is; any other own lock is removed first; then the
\* request is granted, refused (LOCK_NB) or put to sleep.
KFlock(table, o, flag) ==
    LET want == ModeOfFlag(flag)
        dropped == [table EXCEPT ![o] = None]
    IN  IF LOCK_UN \in flag THEN KOk(dropped)
        ELSE IF table[o] = want THEN KOk(table)
        ELSE IF FlockConflict(dropped, o, want)
        THEN IF LOCK_NB \in flag THEN KBusy(dropped, EWOULDBLOCK) ELSE KSleep(dropped)
        ELSE KOk([dropped EXCEPT ![o] = want])

ModeOfLType(ltype) == IF ltype = F_WRLCK THEN Exclusive
                      ELSE IF ltype = F_RDLCK THEN Shared ELSE None

\* The errno values fcntl(F_SETLK) may report for a lock held by another process.
FcntlBusyErrnos == {EACCES, EAGAIN}

\* The kernel's fcntl(fd, cmd, &fl) for a whole-file record at entry: the lock
\* of the calling process is replaced in one step when nothing conflicts and
\* kept when the request is refused or has to wait.
KFcntl(table, p, cmd, ltype, busy) ==
    LET want == ModeOfLType(ltype)
    IN  IF ltype = F_UNLCK THEN KOk([table EXCEPT ![p] = None])
        ELSE IF FcntlConflict(table, p, want)
        THEN IF cmd = F_SETLK THEN KBusy(table, busy) ELSE KSleep(table)
        ELSE KOk([table EXCEPT ![p] = want])

\* ------------------------------------------------------------ the library
\* lock_error(): the error every contention failure is reported as.
lock_error == EWOULDBLOCK

\* A library call returns: it becomes the last completed call.
Returned(r, op, res, native, cause, waited, pre, new) ==
    [ref |-> r, op |-> op, res |-> res, native |-> native,
     cause |-> cause, nsys |-> IF native = EINVAL THEN 0 ELSE 1,
     waited |-> waited, pre |-> pre, new |-> new, cloexec |-> NoFlags,
     flag |-> {}, fcntl |-> NoFcntl]

Return(r, op, res, native, cause, waited, pre, new) ==
    last' = Returned(r, op, res, native, cause, waited, pre, new)

\* flock, cfg(not(target_os = "solaris")): ret < 0 is last_os_error(), as it is.
FlockResult(errno) == IF errno # NoErrno THEN errno ELSE "Ok"

\* SolarisResult without the translation of EACCES.
SolarisResult_Verbatim(errno) == IF errno = NoErrno THEN "Ok" ELSE errno

\* flock, cfg(target_os = "solaris"): EACCES is translated to lock_error().
SolarisResult(errno) == IF errno = NoErrno THEN "Ok"
                        ELSE IF errno = EACCES THEN lock_error
                        ELSE errno

\* SolarisCmd with the two commands exchanged.
SolarisCmd_Swapped(flag) == IF LOCK_NB \in flag THEN F_SETLKW ELSE F_SETLK

\* In non-blocking mode F_SETLK, F_SETLKW otherwise, with LOCK_NB cleared.
SolarisCmd(flag) == IF LOCK_NB \in flag THEN F_SETLK ELSE F_SETLKW
SolarisOperation(flag) == IF LOCK_NB \in flag THEN flag \ {LOCK_NB} ELSE flag

\* match operation: the record-lock type, or EINVAL for any other value.
SolarisLType(operation) ==
    CASE operation = {LOCK_SH} -> F_RDLCK
      [] operation = {LOCK_EX} -> F_WRLCK
      [] operation = {LOCK_UN} -> F_UNLCK
      [] OTHER -> EINVAL

\* The request the emulation hands to fcntl for a flag word: the command and
\* the struct flock (l_whence 0 is SEEK_SET; start 0 and length 0 cover the
\* whole file), or no request when the operation is none of the three.
SolarisRequest(flag) ==
    LET ltype == SolarisLType(SolarisOperation(flag))
    IN  IF ltype = EINVAL THEN NoFcntl
        ELSE [cmd |-> SolarisCmd(flag), l_type |-> ltype,
              l_whence |-> 0, l_start |-> 0, l_len |-> 0]

\* A call of the emulation returns: the flag word it was given and the fcntl
\* request it made are part of its record.
SolarisReturn(r, op, flag, errno, cause, waited, pre) ==
    last' = [Returned(r, op, SolarisResult(errno), errno, cause, waited, pre, 0)
                EXCEPT !.flag = flag, !.fcntl = SolarisRequest(flag)]

\* The mode the lock owner of r (its open file description under flock, its
\* process under the emulation) holds.
HeldBy(r) == IF platform = "solaris" THEN plocks[PidOf(r)] ELSE flocks[ofd[r]]

Suspend(r, op, flag) ==
    /\ call' = [call EXCEPT ![r] = [op |-> op, flag |-> flag]]
    /\ UNCHANGED last

NativeFlock(r, op, flag) ==
    LET k == KFlock(flocks, ofd[r], flag)
    IN  /\ flocks' = k.table
        /\ UNCHANGED plocks
        /\ IF k.sleep
           THEN Suspend(r, op, flag)
           ELSE /\ Return(r, op, FlockResult(k.errno), k.errno, k.cause,
                          FALSE, HeldBy(r), 0)
                /\ UNCHANGED call

SolarisFlock(r, op, flag) ==
    LET cmd == SolarisCmd(flag)
        ltype == SolarisLType(SolarisOperation(flag))
    IN  IF ltype = EINVAL
        THEN /\ SolarisReturn(r, op, flag, EINVAL, "invalid", FALSE, HeldBy(r))
             /\ UNCHANGED <<flocks, plocks, call>>
        ELSE \E busy \in FcntlBusyErrnos :
                LET k == KFcntl(plocks, PidOf(r), cmd, ltype, busy)
                IN  /\ plocks' = k.table
                    /\ UNCHANGED flocks
                    /\ IF k.sleep
                       THEN Suspend(r, op, flag)
                       ELSE /\ SolarisReturn(r, op, flag, k.errno, k.cause, FALSE,
                                             HeldBy(r))
                            /\ UNCHANGED call

\* A reference can be used for a call: it is open, and its thread is not held
\* inside another call.
CanCall(r) == r \in OpenRefs /\ call[r] = Idle /\ ThreadFree(ThreadOf(r))

flock(r, op, flag) ==
    /\ CanCall(r)
    /\ UNCHANGED <<fsvars, wlocks, platform, ofd>>
    /\ IF platform = "solaris"
       THEN SolarisFlock(r, op, flag)
       ELSE NativeFlock(r, op, flag)

\* The wrappers with a wrong flag word.
lock_shared_AsExclusive(r) == flock(r, "lock_shared", {LOCK_EX})
try_lock_shared_NoNB(r) == flock(r, "try_lock_shared", {LOCK_SH})
try_lock_exclusive_AsShared(r) == flock(r, "try_lock_exclusive", {LOCK_SH, LOCK_NB})
unlock_AsShared(r) == flock(r, "unlock", {LOCK_SH})

lock_shared(r) == flock(r, "lock_shared", {LOCK_SH})
lock_exclusive(r) == flock(r, "lock_exclusive", {LOCK_EX})
try_lock_shared(r) == flock(r, "try_lock_shared", {LOCK_SH, LOCK_NB})
try_lock_exclusive(r) == flock(r, "try_lock_exclusive", {LOCK_EX, LOCK_NB})
unlock(r) == flock(r, "unlock", {LOCK_UN})

\* Every flag word over the four bits of flock(2).
FlagWords == SUBSET {LOCK_SH, LOCK_EX, LOCK_NB, LOCK_UN}

\* flock(file, flag) called with a flag word of any value.
flock_with(r, flag) == flock(r, "flock", flag)

\* The suspended call of r is resumed by the kernel with the lock granted.
Granted(r) ==
    LET want == ModeOfFlag(call[r].flag)
    IN  /\ call[r] # Idle
        /\ IF platform = "solaris"
           THEN /\ ~FcntlConflict(plocks, PidOf(r), want)
                /\ plocks' = [plocks EXCEPT ![PidOf(r)] = want]
                /\ UNCHANGED flocks
                /\ SolarisReturn(r, call[r].op, call[r].flag, NoErrno, "none",
                                 TRUE, HeldBy(r))
           ELSE /\ ~FlockConflict(flocks, ofd[r], want)
                /\ flocks' = [flocks EXCEPT ![ofd[r]] = want]
                /\ UNCHANGED plocks
                /\ Return(r, call[r].op, FlockResult(NoErrno), NoErrno, "none",
                          TRUE, HeldBy(r), 0)
        /\ call' = [call EXCEPT ![r] = Idle]
        /\ UNCHANGED <<fsvars, wlocks, platform, ofd>>

\* A signal handler runs in the thread suspended in the call of r: the kernel
\* call fails with EINTR and the library function returns what flock returns.
Interrupted(r) ==
    /\ call[r] # Idle
    /\ IF platform = "solaris"
       THEN SolarisReturn(r, call[r].op, call[r].flag, EINTR, "interrupted", TRUE,
                          HeldBy(r))
       ELSE Return(r, call[r].op, FlockResult(EINTR), EINTR, "interrupted", TRUE,
                   HeldBy(r), 0)
    /\ call' = [call EXCEPT ![r] = Idle]
    /\ UNCHANGED <<fsvars, wlocks, platform, ofd, flocks, plocks>>

\* ---------------------------------------------------- references come and go
\* Open file descriptions have no names of their own: the model names each by
\* the lowest reference that shares it, and renames (table row included) when
\* that reference changes.
Rep(f, r) == CHOOSE m \in Refs : f[m] = f[r] /\ \A m2 \in Refs : f[m2] = f[r] => m <= m2
NamedOfd(f) == [r \in Refs |-> IF f[r] = 0 THEN 0 ELSE Rep(f, r)]
NamedFlocks(f, table) ==
    [o \in Refs |-> IF f[o] # 0 /\ Rep(f, o) = o THEN table[f[o]] ELSE None]

\* OpenOptions::open: a new reference with an open file description of its own.
Open(r) ==
    /\ r \notin OpenRefs
    /\ ThreadFree(ThreadOf(r))
    /\ ofd' = NamedOfd([ofd EXCEPT ![r] = r])
    /\ flocks' = NamedFlocks([ofd EXCEPT ![r] = r], flocks)
    /\ Return(r, "open", "Ok", NoErrno, "none", FALSE, None, 0)
    /\ UNCHANGED <<fsvars, wlocks, platform, plocks, call>>

\* Where dup can put the new reference: any closed one (under the emulation, one
\* of the same process).
DupSlots(r) == {g \in Refs \ OpenRefs :
                    ThreadFree(ThreadOf(g)) /\ (platform \in FcntlBuilds => PidOf(g) = PidOf(r))}

\* duplicate that reopens the file instead of calling dup.
DupOfd_Reopen(r, g) == g

\* libc::dup: the new reference shares the open file description of r.
DupOfd(r, g) == ofd[r]

\* The FD_CLOEXEC flag the descriptor of a File can have when duplicate is
\* called: set in a file the standard library opened (O_CLOEXEC), clear in one
\* that came from dup.
FdCloexec == BOOLEAN

\* libc::dup: the descriptor flags are not copied, FD_CLOEXEC is off in the new
\* descriptor whatever the old one has.
DupCloexec(c) == FALSE

duplicate(r) ==
    /\ CanCall(r)
    /\ IF DupSlots(r) = {}
       THEN /\ Return(r, "duplicate", EMFILE, EMFILE, "limit", FALSE, HeldBy(r), 0)
            /\ UNCHANGED <<ofd, flocks>>
       ELSE \E g \in DupSlots(r) : \E c \in FdCloexec :
                /\ ofd' = NamedOfd([ofd EXCEPT ![g] = DupOfd(r, g)])
                /\ flocks' = NamedFlocks([ofd EXCEPT ![g] = DupOfd(r, g)], flocks)
                /\ last' = [Returned(r, "duplicate", "Ok", NoErrno, "none", FALSE,
                                     HeldBy(r), g)
                              EXCEPT !.cloexec = [orig |-> c, dup |-> DupCloexec(c)]]
    /\ UNCHANGED <<fsvars, wlocks, platform, plocks, call>>

\* Close in the manner of fcntl: any descriptor that goes takes the lock along.
CloseFlocks_AnyClose(r) == [flocks EXCEPT ![ofd[r]] = None]

\* Dropping a File closes its descriptor.  flock: the lock goes with the last
\* descriptor of the open file description.  fcntl: every record lock of the
\* process on the file goes with any descriptor of the file.
CloseFlocks(r) == IF RefsOf(ofd[r]) = {r} THEN [flocks EXCEPT ![ofd[r]] = None] ELSE flocks

Close(r) ==
    /\ CanCall(r)
    /\ ofd' = NamedOfd([ofd EXCEPT ![r] = 0])
    /\ flocks' = NamedFlocks([ofd EXCEPT ![r] = 0], CloseFlocks(r))
    /\ plocks' = IF platform \in FcntlBuilds THEN [plocks EXCEPT ![PidOf(r)] = None] ELSE plocks
    /\ Return(r, "close", "Ok", NoErrno, "none", FALSE, HeldBy(r), 0)
    /\ UNCHANGED <<fsvars, wlocks, platform, call>>

\* ------------------------------------------- the two builds side by side
\* One call handed to both builds of flock: the native one works on the flock
\* table, the emulation on the record-lock table.  The caller goes on as the
\* native build lets it.
BothFlock(r, op, flag) ==
    /\ platform = "both"
    /\ CanCall(r)
    /\ \E busy \in FcntlBusyErrnos :
          LET kn == KFlock(flocks, ofd[r], flag)
              ke == KFcntl(plocks, PidOf(r), SolarisCmd(flag),
                           SolarisLType(SolarisOperation(flag)), busy)
          IN  /\ flocks' = kn.table
              /\ plocks' = ke.table
              /\ IF kn.sleep
                 THEN Suspend(r, op, flag)
                 ELSE /\ Return(r, op, FlockResult(kn.errno), kn.errno, kn.cause,
                                FALSE, flocks[ofd[r]], 0)
                      /\ UNCHANGED call
    /\ UNCHANGED <<fsvars, wlocks, platform, ofd>>

both_lock_shared(r) == BothFlock(r, "lock_shared", {LOCK_SH})
both_lock_exclusive(r) == BothFlock(r, "lock_exclusive", {LOCK_EX})
both_try_lock_shared(r) == BothFlock(r, "try_lock_shared", {LOCK_SH, LOCK_NB})
both_try_lock_exclusive(r) == BothFlock(r, "try_lock_exclusive", {LOCK_EX, LOCK_NB})
both_unlock(r) == BothFlock(r, "unlock", {LOCK_UN})

\* The suspended call of r is granted by the native kernel; the emulation's
\* F_SETLKW gets its lock too unless another process still holds a conflicting
\* record lock.
BothGranted(r) ==
    LET want == ModeOfFlag(call[r].flag)
    IN  /\ platform = "both"
        /\ call[r] # Idle
        /\ ~FlockConflict(flocks, ofd[r], want)
        /\ flocks' = [flocks EXCEPT ![ofd[r]] = want]
        /\ plocks' = IF FcntlConflict(plocks, PidOf(r), want) THEN plocks
                      ELSE [plocks EXCEPT ![PidOf(r)] = want]
        /\ Return(r, call[r].op, FlockResult(NoErrno), NoErrno, "none", TRUE,
                  flocks[ofd[r]], 0)
        /\ call' = [call EXCEPT ![r] = Idle]
        /\ UNCHANGED <<fsvars, wlocks, platform, ofd>>

\* ------------------------------------------------------------ Windows
\* Locks that can be on the file at once in the model.
MaxLocks == 3

LOCKFILE_EXCLUSIVE_LOCK == "LOCKFILE_EXCLUSIVE_LOCK"
LOCKFILE_FAIL_IMMEDIATELY == "LOCKFILE_FAIL_IMMEDIATELY"
ERROR_LOCK_VIOLATION == "ERROR_LOCK_VIOLATION"
ERROR_NOT_LOCKED == "ERROR_NOT_LOCKED"

\* lock_contended_error() of the Windows build.
lock_contended_error == ERROR_LOCK_VIOLATION

\* The whole-file locks of one owner: x exclusive ones and s shared ones.
NoLocks == [x |-> 0, s |-> 0]
NoWLocks == [by |-> [r \in Refs |-> NoLocks], left |-> [o \in Refs |-> NoLocks]]
Sum(a, b) == [x |-> a.x + b.x, s |-> a.s + b.s]

\* The number of locks on the file.
RECURSIVE CountLocks(_, _)
CountLocks(w, S) ==
    IF S = {} THEN 0
    ELSE LET g == CHOOSE g \in S : TRUE
         IN  w.by[g].x + w.by[g].s + w.left[g].x + w.left[g].s + CountLocks(w, S \ {g})

\* The strongest mode among the locks l.
ModeOf(l) == IF l.x > 0 THEN Exclusive ELSE IF l.s > 0 THEN Shared ELSE None

\* WinConflict with the handles of one file object as one owner, in the manner
\* of flock.
WinConflict_PerFileObject(w, h, flags) ==
    IF LOCKFILE_EXCLUSIVE_LOCK \in flags
    THEN \E g \in Refs : (ofd[g] # ofd[h] /\ w.by[g] # NoLocks)
                         \/ (g # ofd[h] /\ w.left[g] # NoLocks)
    ELSE \E g \in Refs : (ofd[g] # ofd[h] /\ w.by[g].x > 0)
                         \/ (g # ofd[h] /\ w.left[g].x > 0)

\* LockFileEx over the whole file: an exclusive request conflicts with every
\* lock there is, the handle's own included; a shared request conflicts with
\* the exclusive locks placed through other handles.
WinConflict(w, h, flags) ==
    IF LOCKFILE_EXCLUSIVE_LOCK \in flags
    THEN \E g \in Refs : w.by[g] # NoLocks \/ w.left[g] # NoLocks
    ELSE \E g \in Refs : (g # h /\ w.by[g].x > 0) \/ w.left[g].x > 0

\* The lock the request adds to those of handle h.
WinAdded(w, h, flags) ==
    IF LOCKFILE_EXCLUSIVE_LOCK \in flags
    THEN [w EXCEPT !.by[h].x = @ + 1]
    ELSE [w EXCEPT !.by[h].s = @ + 1]

\* LockFileEx that takes the place of the lock the handle holds.
LockFileEx_Replacing(w, h, flags) ==
    LET cleared == [w EXCEPT !.by[h] = NoLocks]
    IN  IF ~WinConflict(cleared, h, flags) THEN KOk(WinAdded(cleared, h, flags))
        ELSE IF LOCKFILE_FAIL_IMMEDIATELY \in flags THEN KBusy(cleared, ERROR_LOCK_VIOLATION)
        ELSE KSleep(cleared)

\* LockFileEx(handle, flags, 0, !0, !0, &overlapped) at entry: the lock is added
\* to the locks of the handle, refused (LOCKFILE_FAIL_IMMEDIATELY) or waited for.
LockFileEx(w, h, flags) ==
    IF ~WinConflict(w, h, flags) THEN KOk(WinAdded(w, h, flags))
    ELSE IF LOCKFILE_FAIL_IMMEDIATELY \in flags THEN KBusy(w, ERROR_LOCK_VIOLATION)
    ELSE KSleep(w)

\* The kinds of lock handle h holds.
HeldKinds(w, h) == {k \in {"x", "s"} : w.by[h][k] > 0}

\* UnlockFile that releases every lock of the handle.
UnlockFile_All(w, h, k) == [w EXCEPT !.by[h] = NoLocks]

\* UnlockFile(handle, 0, 0, !0, !0): one lock of kind k of the handle is released.
UnlockFile(w, h, k) == [w EXCEPT !.by[h][k] = @ - 1]

\* A call of the Windows build returns.
WinReturn(r, op, k, waited) ==
    Return(r, op, IF k.errno = NoErrno THEN "Ok" ELSE k.errno, k.errno, k.cause,
           waited, None, 0)

lock_file(r, op, flags) ==
    /\ CanCall(r)
    /\ ~WinConflict(wlocks, r, flags) => CountLocks(wlocks, Refs) < MaxLocks
    /\ LET k == LockFileEx(wlocks, r, flags)
       IN  /\ wlocks' = k.table
           /\ IF k.sleep
              THEN Suspend(r, op, flags)
              ELSE WinReturn(r, op, k, FALSE) /\ UNCHANGED call
    /\ UNCHANGED <<fsvars, platform, ofd, flocks, plocks>>

windows_lock_shared(r) == lock_file(r, "lock_shared", {})
windows_lock_exclusive(r) == lock_file(r, "lock_exclusive", {LOCKFILE_EXCLUSIVE_LOCK})
windows_try_lock_shared(r) == lock_file(r, "try_lock_shared", {LOCKFILE_FAIL_IMMEDIATELY})
windows_try_lock_exclusive(r) ==
    lock_file(r, "try_lock_exclusive", {LOCKFILE_EXCLUSIVE_LOCK, LOCKFILE_FAIL_IMMEDIATELY})

\* unlock: one UnlockFile call; on a handle without a lock it changes nothing.
windows_unlock(r) ==
    /\ CanCall(r)
    /\ IF HeldKinds(wlocks, r) = {}
       THEN /\ WinReturn(r, "unlock", KOk(wlocks), FALSE)
            /\ UNCHANGED wlocks
       ELSE \E k \in HeldKinds(wlocks, r) :
                /\ wlocks' = UnlockFile(wlocks, r, k)
                /\ WinReturn(r, "unlock", KOk(wlocks), FALSE)
    /\ UNCHANGED <<fsvars, platform, ofd, flocks, plocks, call>>

\* The suspended LockFileEx of r is completed with the lock granted.
WinGranted(r) ==
    /\ call[r] # Idle
    /\ ~WinConflict(wlocks, r, call[r].flag)
    /\ CountLocks(wlocks, Refs) < MaxLocks
    /\ wlocks' = WinAdded(wlocks, r, call[r].flag)
    /\ WinReturn(r, call[r].op, KOk(wlocks), TRUE)
    /\ call' = [call EXCEPT ![r] = Idle]
    /\ UNCHANGED <<fsvars, platform, ofd, flocks, plocks>>

\* The locks left behind, under the names NamedOfd gives the file objects.
NamedLeft(f, left) ==
    [o \in Refs |-> IF f[o] # 0 /\ Rep(f, o) = o THEN left[f[o]] ELSE NoLocks]

\* OpenOptions::open: a new handle on a file object of its own.
WinOpen(r) ==
    /\ r \notin OpenRefs
    /\ ThreadFree(ThreadOf(r))
    /\ ofd' = NamedOfd([ofd EXCEPT ![r] = r])
    /\ wlocks' = [wlocks EXCEPT !.left = NamedLeft([ofd EXCEPT ![r] = r], wlocks.left)]
    /\ Return(r, "open", "Ok", NoErrno, "none", FALSE, None, 0)
    /\ UNCHANGED <<fsvars, platform, flocks, plocks, call>>

\* duplicate (DuplicateHandle): a new handle on the file object of r, with no
\* locks of its own.
windows_duplicate(r) ==
    /\ CanCall(r)
    /\ \E g \in DupSlots(r) :
          /\ ofd' = NamedOfd([ofd EXCEPT ![g] = ofd[r]])
          /\ wlocks' = [wlocks EXCEPT !.left = NamedLeft([ofd EXCEPT ![g] = ofd[r]], wlocks.left)]
          /\ Return(r, "duplicate", "Ok", NoErrno, "none", FALSE, None, g)
    /\ UNCHANGED <<fsvars, platform, flocks, plocks, call>>

\* Locks nobody can unlock any more are kept by kind, one of each at most.
Kinds(l) == [x |-> IF l.x > 0 THEN 1 ELSE 0, s |-> IF l.s > 0 THEN 1 ELSE 0]

\* CloseHandle that takes the locks placed through the handle along.
LeftAtClose_WithHandle(w, r) ==
    IF RefsOf(ofd[r]) = {r}
    THEN [w.left EXCEPT ![ofd[r]] = NoLocks]
    ELSE w.left

\* drop(file), CloseHandle: the locks placed through the handle stay on the file
\* until the last handle of its file object is closed.
LeftAtClose(w, r) ==
    IF RefsOf(ofd[r]) = {r}
    THEN [w.left EXCEPT ![ofd[r]] = NoLocks]
    ELSE [w.left EXCEPT ![ofd[r]] = Kinds(Sum(@, w.by[r]))]

WinClose(r) ==
    /\ CanCall(r)
    /\ ofd' = NamedOfd([ofd EXCEPT ![r] = 0])
    /\ wlocks' = [by |-> [wlocks.by EXCEPT ![r] = NoLocks],
                  left |-> NamedLeft([ofd EXCEPT ![r] = 0], LeftAtClose(wlocks, r))]
    /\ Return(r, "close", "Ok", NoErrno, "none", FALSE, None, 0)
    /\ UNCHANGED <<fsvars, platform, flocks, plocks, call>>

\* ------------------------------------------------------------ specifications
InitOS ==
    /\ ofd = [r \in Refs |-> 0]
    /\ flocks = [o \in Refs |-> None]
    /\ plocks = [p \in Threads |-> None]
    /\ call = [r \in Refs |-> Idle]
    /\ last = NoCall
    /\ wlocks = NoWLocks

\* The record of allocate calls before any was made.  calls is the sequence of
\* the system calls an allocate call made, each with the length handed over and
\* the error it came back with (kept for the F_PREALLOCATE build).
NoAlloc == [len |-> 0, res |-> "Ok", native |-> NoErrno, calls |-> <<>>]

\* No allocate call has been made.
InitFS ==
    /\ file = [size |-> 0, blocks |-> {}]
    /\ os_error = NoErrno
    /\ alast = NoAlloc

Init == platform = "flock" /\ InitOS /\ InitFS
InitSolaris == platform = "solaris" /\ InitOS /\ InitFS
InitAny == platform \in {"flock", "solaris"} /\ InitOS /\ InitFS

Next ==
    \E r \in Refs :
        \/ Open(r)
        \/ duplicate(r)
        \/ Close(r)
        \/ lock_shared(r)
        \/ lock_exclusive(r)
        \/ try_lock_shared(r)
        \/ try_lock_exclusive(r)
        \/ unlock(r)
        \/ Granted(r)
        \/ Interrupted(r)

\* The build for every target but Solaris.
Spec == Init /\ [][Next]_vars
\* The build for Solaris.
SpecSolaris == InitSolaris /\ [][Next]_vars
\* Either build.
SpecAny == InitAny /\ [][Next]_vars

NextFlags ==
    \E r \in Refs :
        \/ Open(r)
        \/ duplicate(r)
        \/ Close(r)
        \/ \E flag \in FlagWords : flock_with(r, flag)
        \/ Granted(r)
        \/ Interrupted(r)

\* The emulation's flock given every flag word, not only those of the wrappers.
SpecSolarisFlags == InitSolaris /\ [][NextFlags]_vars

InitBoth == platform = "both" /\ InitOS /\ InitFS

NextBoth ==
    \E r \in Refs :
        \/ Open(r)
        \/ duplicate(r)
        \/ Close(r)
        \/ both_lock_shared(r)
        \/ both_lock_exclusive(r)
        \/ both_try_lock_shared(r)
        \/ both_try_lock_exclusive(r)
        \/ both_unlock(r)
        \/ BothGranted(r)

\* The native build and the emulation given the same calls.
SpecBoth == InitBoth /\ [][NextBoth]_vars

InitWindows == platform = "windows" /\ InitOS /\ InitFS

NextWindows ==
    \E r \in Refs :
        \/ WinOpen(r)
        \/ windows_duplicate(r)
        \/ WinClose(r)
        \/ windows_lock_shared(r)
        \/ windows_lock_exclusive(r)
        \/ windows_try_lock_shared(r)
        \/ windows_try_lock_exclusive(r)
        \/ windows_unlock(r)
        \/ WinGranted(r)

\* The build for Windows.
SpecWindows == InitWindows /\ [][NextWindows]_vars

TypeOK ==
    /\ platform \in {"flock", "solaris"}
    /\ ofd \in [Refs -> 0..MaxRefs]
    /\ flocks \in [Refs -> {None, Shared, Exclusive}]
    /\ plocks \in [Threads -> {None, Shared, Exclusive}]
    /\ \A r \in Refs : call[r] # Idle => r \in OpenRefs /\ LOCK_NB \notin call[r].flag

\* ------------------------------------------------------------ allocation
\* Sizes are counted in units of 256 bytes: the 512 bytes of one block of
\* st_blocks are 2.
BlockSize == 2
\* The blocks a file can grow to (the file-size limit and the volume's space).
MaxBlocks == 3
\* Integer widths are scaled down: WordBits stands for the 64 bits of u64, i64
\* and the off_t of 64-bit targets, WordBits - 1 for the off_t of 32-bit targets.
WordBits == 4

U64 == 0..(2^WordBits - 1)
MaxFileBytes == MaxBlocks * BlockSize

\* The builds of allocate: posix_fallocate with a 64-bit and with a 32-bit
\* off_t, F_PREALLOCATE, and the Windows build.
AllocTargets == {"linux64", "linux32", "macos", "windows"}

ENOSPC == "ENOSPC"
EFBIG == "EFBIG"
ENOENT == "ENOENT"
ERROR_INVALID_PARAMETER == "ERROR_INVALID_PARAMETER"
ERROR_DISK_FULL == "ERROR_DISK_FULL"
F_ALLOCATECONTIG == "F_ALLOCATECONTIG"
F_ALLOCATEALL == "F_ALLOCATEALL"

\* x as a signed integer of the given width: the low bits in two's complement.
AsSigned(x, bits) ==
    LET m == x % (2^bits)
    IN  IF m >= 2^(bits - 1) THEN m - 2^bits ELSE m

\* len as libc::off_t
as_off_t(len) == AsSigned(len, IF platform = "linux32" THEN WordBits - 1 ELSE WordBits)
\* len as i64
as_i64(len) == AsSigned(len, WordBits)

Larger(a, b) == IF a >= b THEN a ELSE b
Top(S) == CHOOSE x \in S : \A y \in S : y <= x

\* The number of blocks that hold n bytes, and the blocks of the range [0, n).
BlocksFor(n) == (n + BlockSize - 1) \div BlockSize
Covering(n) == 0..(BlocksFor(n) - 1)

\* allocated_size: the blocks of the file, in bytes.
allocated_size(f) == Cardinality(f.blocks) * BlockSize

\* The outcome of a system call: its error (NoErrno when it succeeded), the
\* file it leaves, and the errno it leaves.
SysOk(f) == [err |-> NoErrno, file |-> f, errno |-> os_error]
\* A call that reports its error through errno.
SysFail(f, e) == [err |-> e, file |-> f, errno |-> e]
\* A call that returns its error number and leaves errno as it was.
SysFailReturned(f, e) == [err |-> e, file |-> f, errno |-> os_error]

\* posix_fallocate(fd, 0, len): the blocks of [0, len) are allocated, holes
\* included, and the file is grown to len when it was shorter.  The error is the
\* return value; errno is not set.
posix_fallocate(f, len, free) ==
    LET need == Covering(len) \ f.blocks
    IN  IF len <= 0 THEN SysFailReturned(f, EINVAL)
        ELSE IF len > MaxFileBytes THEN SysFailReturned(f, EFBIG)
        ELSE IF Cardinality(need) > free THEN SysFailReturned(f, ENOSPC)
        ELSE SysOk([size |-> Larger(f.size, len), blocks |-> f.blocks \cup need])

\* n more blocks at the physical end of the file.
Appended(f, n) ==
    LET peof == IF f.blocks = {} THEN 0 ELSE Top(f.blocks) + 1
    IN  [f EXCEPT !.blocks = f.blocks \cup (peof..(peof + n - 1))]

\* fcntl(fd, F_PREALLOCATE, &fstore) with fst_posmode F_PEOFPOSMODE and
\* fst_offset 0: fst_length bytes more from the physical end of the file.  The
\* space allocated can be smaller than the space requested when F_ALLOCATEALL
\* is not given.
F_PREALLOCATE(f, fst_flags, fst_length, free, contig) ==
    LET n == BlocksFor(fst_length)
    IN  IF fst_length <= 0 THEN SysFail(f, EINVAL)
        ELSE IF fst_flags = F_ALLOCATECONTIG /\ ~contig THEN SysFail(f, ENOSPC)
        ELSE IF free >= n THEN SysOk(Appended(f, n))
        ELSE IF fst_flags = F_ALLOCATEALL \/ free = 0 THEN SysFail(f, ENOSPC)
        ELSE SysOk(Appended(f, free))

\* File::set_len(len) growing a file: ftruncate / SetEndOfFile.
set_len(f, len) ==
    IF len > MaxFileBytes
    THEN SysFail(f, IF platform = "windows" THEN ERROR_DISK_FULL ELSE EFBIG)
    ELSE SysOk([f EXCEPT !.size = len])

\* SetFileInformationByHandle(FileAllocationInfo): the allocation becomes
\* AllocationSize rounded up to whole blocks; an end of file beyond the new
\* allocation is moved back to it.
SetFileAllocationInfo(f, AllocationSize, free) ==
    LET n == BlocksFor(AllocationSize)
        more == n - Cardinality(f.blocks)
    IN  IF AllocationSize < 0 THEN SysFail(f, ERROR_INVALID_PARAMETER)
        ELSE IF more > free THEN SysFail(f, ERROR_DISK_FULL)
        ELSE SysOk([size |-> IF f.size > n * BlockSize THEN n * BlockSize ELSE f.size,
                    blocks |-> Appended(f, more).blocks])

\* An allocate call returns.
AllocReturnAfter(len, k, res, calls) ==
    /\ file' = k.file
    /\ os_error' = k.errno
    /\ alast' = [len |-> len, res |-> res, native |-> k.err, calls |-> calls]

AllocReturn(len, k, res) == AllocReturnAfter(len, k, res, <<>>)

\* One system call in the record of an allocate call.
Sys(name, arg, k) == [call |-> name, arg |-> arg, err |-> k.err]

\* Err(std::io::Error::last_os_error()) after the system call outcome k.
LastOsError(k) == k.errno

\* allocate, cfg(linux, freebsd, android, emscripten, nacl)
allocate_posix_fallocate(len, free) ==
    /\ platform \in {"linux64", "linux32"}
    /\ LET k == posix_fallocate(file, as_off_t(len), free)
       IN  AllocReturn(len, k, IF k.err = NoErrno THEN "Ok" ELSE LastOsError(k))
    /\ UNCHANGED <<platform, lockvars>>

\* allocate, cfg(macos, ios)
\* The test on the file's size in place of the one on its blocks.
NeedsPreallocation_BySize(stat, len) == len > stat.size

\* if len > stat.blocks() as u64 * 512
NeedsPreallocation(stat, len) == len > allocated_size(stat)

allocate_macos(len, free, contig) ==
    /\ platform = "macos"
    /\ LET stat == file
           k1 == F_PREALLOCATE(file, F_ALLOCATECONTIG, as_off_t(len), free, contig)
           k2 == IF k1.err # NoErrno
                 THEN F_PREALLOCATE(file, F_ALLOCATEALL, as_off_t(len), free, contig)
                 ELSE k1
           k == IF NeedsPreallocation(stat, len) THEN k2 ELSE SysOk(file)
           t == set_len(k.file, len)
           pre == IF ~NeedsPreallocation(stat, len) THEN <<>>
                  ELSE IF k1.err = NoErrno
                  THEN <<Sys(F_ALLOCATECONTIG, as_off_t(len), k1)>>
                  ELSE <<Sys(F_ALLOCATECONTIG, as_off_t(len), k1),
                         Sys(F_ALLOCATEALL, as_off_t(len), k2)>>
       IN  IF k.err # NoErrno THEN AllocReturnAfter(len, k, LastOsError(k), pre)
           ELSE IF len > stat.size
           THEN AllocReturnAfter(len, t, IF t.err = NoErrno THEN "Ok" ELSE LastOsError(t),
                                 Append(pre, Sys("set_len", len, t)))
           ELSE AllocReturnAfter(len, k, "Ok", pre)
    /\ UNCHANGED <<platform, lockvars>>

\* allocate, windows
allocate_windows(len, free) ==
    /\ platform = "windows"
    /\ LET k == IF allocated_size(file) < len
                THEN SetFileAllocationInfo(file, as_i64(len), free)
                ELSE SysOk(file)
           t == set_len(k.file, len)
       IN  IF k.err # NoErrno THEN AllocReturn(len, k, LastOsError(k))
           ELSE IF k.file.size < len
           THEN AllocReturn(len, t, IF t.err = NoErrno THEN "Ok" ELSE LastOsError(t))
           ELSE AllocReturn(len, k, "Ok")
    /\ UNCHANGED <<platform, lockvars>>

\* The states a file can be in: any length up to the limit, over any set of
\* allocated blocks (holes and blocks past the end included).
Files == [size : 0..MaxFileBytes, blocks : SUBSET (0..(MaxBlocks - 1))]

\* errno as earlier calls of the thread may have left it.
StaleErrnos == {NoErrno, ENOENT}

InitAlloc ==
    /\ platform \in AllocTargets
    /\ InitOS
    /\ file \in Files
    /\ os_error \in StaleErrnos
    /\ alast = NoAlloc

\* Each call with the length asked for, the free blocks of the volume, and
\* whether the free blocks are contiguous.
NextAlloc ==
    \E len \in U64 : \E free \in 0..MaxBlocks :
        \/ allocate_posix_fallocate(len, free)
        \/ \E contig \in BOOLEAN : allocate_macos(len, free, contig)
        \/ allocate_windows(len, free)

\* allocate on each of its builds, from every file state.
SpecAlloc == InitAlloc /\ [][NextAlloc]_vars

InitMacos ==
    /\ platform = "macos"
    /\ InitOS
    /\ file \in Files
    /\ os_error \in StaleErrnos
    /\ alast = NoAlloc

NextMacos ==
    \E len \in U64 : \E free \in 0..MaxBlocks : \E contig \in BOOLEAN :
        allocate_macos(len, free, contig)

\* allocate of the F_PREALLOCATE build (macOS, iOS), from every file state.
SpecMacos == InitMacos /\ [][NextMacos]_vars

\* ------------------------------------------------------------ properties
LockOps == {"lock_shared", "lock_exclusive", "try_lock_shared", "try_lock_exclusive", "unlock"}
TryOps == {"try_lock_shared", "try_lock_exclusive"}
BlockingOps == {"lock_shared", "lock_exclusive"}
WantOf(op) == IF op \in {"lock_shared", "try_lock_shared"} THEN Shared
              ELSE IF op \in {"lock_exclusive", "try_lock_exclusive"} THEN Exclusive
              ELSE None

\* In this step the call op of reference r returns.
Returns(r, op) == last' # last /\ last'.ref = r /\ last'.op = op
\* In this step r calls op and the call returns without having been suspended.
CallsAndReturns(r, op) == Returns(r, op) /\ call[r] = Idle /\ r \in OpenRefs

\* What a non-blocking request of b for mode flag would get from the flock table.
TryErrno(table, b, flag) == KFlock(table, ofd[b], flag \cup {LOCK_NB}).errno

\* C1: under flock, in every reachable state the lock holders are compatible:
\* when an open file description holds Exclusive, no other one holds Shared or
\* Exclusive.
C1_HoldersCompatible ==
    \A o1, o2 \in Refs :
        (o1 # o2 /\ flocks[o1] = Exclusive) => flocks[o2] = None

\* C1 witness: A holds Exclusive and B, opened independently, has just been refused.
C1_Witness ==
    \E a, b \in OpenRefs :
        /\ ofd[a] # ofd[b]
        /\ flocks[ofd[a]] = Exclusive
        /\ last.ref = b /\ last.op = "try_lock_shared" /\ last.res = lock_error

\* C2: a try_lock_shared / try_lock_exclusive of B fails with the Contended
\* sentinel exactly when another open file description holds a conflicting lock
\* (both fail while A holds Exclusive) and otherwise succeeds with the lock held;
\* unlock returns Ok and leaves the caller's description without a lock, so
\* after A.unlock() both succeed.
C2_TryFollowsContention ==
    [][\A r \in Refs :
        /\ \A op \in TryOps :
              Returns(r, op) =>
                 IF FlockConflict(flocks, ofd[r], WantOf(op))
                 THEN last'.res = lock_error
                 ELSE last'.res = "Ok" /\ flocks'[ofd[r]] = WantOf(op)
        /\ Returns(r, "unlock") =>
              /\ last'.res = "Ok"
              /\ flocks'[ofd[r]] = None
              /\ \A b \in OpenRefs :
                    (ofd[b] # ofd[r] /\ ~FlockConflict([flocks EXCEPT ![ofd[r]] = None],
                                                       ofd[b], Exclusive))
                    => /\ TryErrno(flocks', b, {LOCK_SH}) = NoErrno
                       /\ TryErrno(flocks', b, {LOCK_EX}) = NoErrno
      ]_vars

\* C2 witness: A has just unlocked its Exclusive lock and B, opened independently,
\* is free to call and finds no conflict left.
C2_Witness ==
    /\ last.op = "unlock" /\ last.res = "Ok" /\ last.pre = Exclusive
    /\ \E b \in OpenRefs :
          /\ ofd[b] # ofd[last.ref]
          /\ CanCall(b)
          /\ ~FlockConflict(flocks, ofd[b], Exclusive)

\* C3: when a reference that holds Exclusive calls lock_shared, the call returns
\* Ok at once and the reference holds Shared; a shared request of any other open
\* file description, which would have been refused with EWOULDBLOCK before, is
\* granted without waiting after it.
C3_ExclusiveReplacedByShared ==
    [][\A r \in Refs :
        (CallsAndReturns(r, "lock_shared") /\ flocks[ofd[r]] = Exclusive) =>
            /\ last'.res = "Ok" /\ ~last'.waited
            /\ flocks'[ofd[r]] = Shared
            /\ \A b \in OpenRefs :
                  ofd[b] # ofd[r] =>
                     /\ TryErrno(flocks, b, {LOCK_SH}) = lock_error
                     /\ TryErrno(flocks', b, {LOCK_SH}) = NoErrno
                     /\ ~KFlock(flocks', ofd[b], {LOCK_SH}).sleep
      ]_vars

\* C3 witness: lock_shared has returned Ok on a reference that held Exclusive,
\* with a second, independently opened reference present.
C3_Witness ==
    /\ last.op = "lock_shared" /\ last.res = "Ok" /\ last.pre = Exclusive
    /\ flocks[ofd[last.ref]] = Shared
    /\ \E b \in OpenRefs : ofd[b] # ofd[last.ref]

\* C4: duplicate gives a new reference, distinct from the original, on the same
\* open file description with the lock state as it was; a Shared lock of the
\* description is replaced by lock_exclusive through any of the duplicates
\* without contention when no other description holds a lock; a try_lock of an
\* independently opened B is refused while the duplicates' description holds a
\* conflicting lock; and unlock through any duplicate leaves the description
\* without a lock, so that B acquires it when nobody else holds one.
C4_DuplicatesShareLock ==
    [][\A a \in Refs :
        /\ (Returns(a, "duplicate") /\ last'.res = "Ok") =>
              /\ last'.new \in Refs \ OpenRefs
              /\ last'.new # a
              /\ ofd'[last'.new] = ofd'[a]
              /\ flocks'[ofd'[a]] = flocks[ofd[a]]
        /\ \A a2 \in OpenRefs \ {a} :
              ofd[a2] = ofd[a] =>
                 /\ (CallsAndReturns(a2, "lock_exclusive") /\ flocks[ofd[a]] = Shared
                        /\ ~FlockConflict(flocks, ofd[a], Exclusive))
                    => (last'.res = "Ok" /\ ~last'.waited /\ flocks'[ofd[a]] = Exclusive)
                 /\ \A b \in OpenRefs : \A op \in TryOps :
                       (ofd[b] # ofd[a] /\ Returns(b, op)
                           /\ ModesConflict(WantOf(op), flocks[ofd[a]]))
                       => last'.res = lock_error
                 /\ Returns(a2, "unlock") =>
                       /\ last'.res = "Ok"
                       /\ flocks'[ofd[a]] = None
                       /\ \A b \in OpenRefs :
                             (ofd[b] # ofd[a] /\ \A o \in Refs \ {ofd[a], ofd[b]} : flocks[o] = None)
                             => ~KFlock(flocks', ofd[b], {LOCK_SH}).sleep
      ]_vars

\* C4 witness: the Shared lock of a description with two references has been
\* replaced by lock_exclusive through one of them, a third reference B being open
\* on a description of its own.
C4_Witness ==
    /\ last.op = "lock_exclusive" /\ last.res = "Ok" /\ last.pre = Shared /\ ~last.waited
    /\ \E a \in OpenRefs \ {last.ref} : ofd[a] = ofd[last.ref]
    /\ \E b \in OpenRefs : ofd[b] # ofd[last.ref]

\* C5: unlock on a reference whose description holds no lock returns Ok and
\* changes nothing: the whole lock table, hence the lock of every other
\* reference, the open references and the suspended calls are as before.
C5_UnlockWithoutLockIsNoOp ==
    [][\A r \in Refs :
        (Returns(r, "unlock") /\ flocks[ofd[r]] = None) =>
            /\ last'.res = "Ok"
            /\ flocks' = flocks
            /\ ofd' = ofd
            /\ call' = call
      ]_vars

\* C5 witness: unlock has returned on a reference that held nothing while another
\* description holds a lock.
C5_Witness ==
    /\ last.op = "unlock" /\ last.res = "Ok" /\ last.pre = None
    /\ \E b \in OpenRefs : ofd[b] # ofd[last.ref] /\ flocks[ofd[b]] # None

\* What conflicts with a request of r for mode want in the platform's lock table.
Contended(r, want) == IF platform = "solaris"
                      THEN FcntlConflict(plocks, PidOf(r), want)
                      ELSE FlockConflict(flocks, ofd[r], want)

\* C6: on either build, a lock call that the kernel refused because of a
\* conflicting lock returns lock_error() (EWOULDBLOCK), whatever errno the
\* kernel reported (EWOULDBLOCK, or EACCES under the Solaris emulation); a lock
\* call that failed for another reason returns the kernel's errno unchanged.
C6_ErrorNormalization ==
    last.op \in LockOps =>
        /\ last.cause = "contention" =>
              (last.res = lock_error /\ last.native \in {EWOULDBLOCK, EACCES})
        /\ last.cause \notin {"none", "contention"} =>
              (last.res = last.native /\ last.native # NoErrno)
        /\ last.cause = "none" => (last.res = "Ok" /\ last.native = NoErrno)

\* C6 witness: under the emulation fcntl reported EACCES for a held lock and the
\* call returned EWOULDBLOCK.
C6_Witness ==
    /\ platform = "solaris"
    /\ last.op \in LockOps /\ last.cause = "contention"
    /\ last.native = EACCES /\ last.res = lock_error

\* C7: a blocking lock_shared / lock_exclusive whose kernel call was interrupted
\* by a signal (EINTR) never returns that interruption to its caller.
C7_InterruptionNeverReturned ==
    ~(last.op \in BlockingOps /\ last.native = EINTR /\ last.res # "Ok")

\* C8: on either build, try_lock_shared and try_lock_exclusive are never
\* suspended; each returns in the step it is called in, after one kernel
\* request, and with the Contended sentinel when a conflicting lock is held at
\* that moment (Ok otherwise).
C8_TryNeverWaits ==
    /\ [](\A r \in Refs : call[r].op \notin TryOps)
    /\ [][\A r \in Refs : \A op \in TryOps :
            Returns(r, op) =>
                /\ call[r] = Idle /\ call' = call
                /\ ~last'.waited /\ last'.nsys = 1
                /\ last'.res = IF Contended(r, WantOf(op)) THEN lock_error ELSE "Ok"
         ]_vars

\* C8 witness: under the emulation a try_lock_exclusive was refused at once
\* (F_SETLK reported EAGAIN) while another process held the lock.
C8_Witness ==
    /\ platform = "solaris"
    /\ last.op = "try_lock_exclusive" /\ last.res = lock_error
    /\ last.native = EAGAIN /\ ~last.waited
    /\ Contended(last.ref, Exclusive)

\* C9: a blocking lock_shared / lock_exclusive that found a conflicting lock
\* stays suspended until the lock is granted: when it returns, it returns Ok and
\* the lock is held.
C9_WaitEndsWithLockHeld ==
    (last.op \in BlockingOps /\ last.waited) =>
        (last.res = "Ok" /\ HeldBy(last.ref) = WantOf(last.op))

\* C10: a lock_shared / lock_exclusive call that waits for a contended lock does
\* not hold its worker thread: every other open reference driven from the same
\* worker can still make its calls (unlock among them) while the call is pending.
C10_PendingCallLeavesWorkerFree ==
    \A r \in Refs :
        call[r] # Idle =>
            \A g \in OpenRefs \ {r} :
                (ThreadOf(g) = ThreadOf(r) /\ call[g] = Idle) => ENABLED unlock(g)

\* In this step r calls op: the call returns in the step or is suspended in it.
Enters(r, op) ==
    \/ CallsAndReturns(r, op)
    \/ (r \in OpenRefs /\ call[r] = Idle /\ call'[r] # Idle /\ call'[r].op = op)

\* The reference r holds a lock of the mode op does not ask for.
HoldsOtherMode(r, op) == flocks[ofd[r]] \notin {None, WantOf(op)}

\* C11: under flock, a reference that holds a lock and calls lock_shared /
\* lock_exclusive for the other mode is never left without a lock by the call:
\* after the step in which it calls, its description still holds a lock (the old
\* one until the new one is granted).
C11_ReplacementAtomic ==
    [][\A r \in Refs : \A op \in BlockingOps :
        (Enters(r, op) /\ HoldsOtherMode(r, op)) => flocks'[ofd[r]] # None
      ]_vars

\* C11 as it holds: the lock is replaced in one step, with no state in between,
\* when no other description holds a conflicting lock at the call; when one
\* does, the old lock is dropped at the call and the reference holds no lock
\* while its call is suspended.
C11_ReplacementAtomicWhenUncontended ==
    [][\A r \in Refs : \A op \in BlockingOps :
        (Enters(r, op) /\ HoldsOtherMode(r, op)) =>
            IF FlockConflict(flocks, ofd[r], WantOf(op))
            THEN /\ call'[r].op = op
                 /\ last' = last
                 /\ flocks'[ofd[r]] = None
            ELSE /\ Returns(r, op)
                 /\ last'.res = "Ok" /\ ~last'.waited
                 /\ call' = call
                 /\ flocks'[ofd[r]] = WantOf(op)
      ]_vars

\* C11 witness: a reference that held Shared has called lock_exclusive and got
\* Exclusive without waiting, another description being open beside it.
C11_Witness ==
    /\ last.op = "lock_exclusive" /\ last.res = "Ok" /\ ~last.waited
    /\ last.pre = Shared
    /\ flocks[ofd[last.ref]] = Exclusive
    /\ \E b \in OpenRefs : ofd[b] # ofd[last.ref] /\ CanCall(b)

\* C12: under flock, closing a reference that has other duplicates open leaves
\* the lock of their description as it is (every independently opened reference
\* meets the same conflicts as before); closing the last reference of a
\* description releases its lock (the others meet the conflicts of the table
\* without it); and no lock is ever held for a description without an open
\* reference.
C12_LockLivesWithLastDuplicate ==
    /\ [](\A o \in Refs : flocks[o] # None => RefsOf(o) # {})
    /\ [][\A r \in Refs :
            Returns(r, "close") =>
                LET left == IF RefsOf(ofd[r]) = {r}
                            THEN [flocks EXCEPT ![ofd[r]] = None]
                            ELSE flocks
                IN  /\ ofd'[r] = 0
                    /\ \A a \in OpenRefs \ {r} :
                          /\ ofd'[a] # 0
                          /\ flocks'[ofd'[a]] = flocks[ofd[a]]
                          /\ \A want \in {Shared, Exclusive} :
                                FlockConflict(flocks', ofd'[a], want)
                                    <=> FlockConflict(left, ofd[a], want)
         ]_vars

\* C12 witness: one of the duplicates of a description holding Exclusive has
\* been closed; another duplicate is open, the lock is held, and a reference
\* opened independently is still refused.
C12_Witness ==
    /\ last.op = "close" /\ last.pre = Exclusive
    /\ \E a, b \in OpenRefs :
          /\ ofd[a] # ofd[b]
          /\ flocks[ofd[a]] = Exclusive
          /\ TryErrno(flocks, b, {LOCK_SH}) = lock_error

\* C17: after duplicate has returned Ok, the new descriptor has FD_CLOEXEC set
\* exactly when the descriptor it was made from has it.
C17_DuplicateKeepsCloexec ==
    (last.op = "duplicate" /\ last.res = "Ok") =>
        (last.cloexec.dup <=> last.cloexec.orig)

\* The length asked for in the allocate call that returned last, and the length
\* the call handed to the operating system.
AskedLen == alast.len
PassedLen(len) == IF platform = "windows" THEN as_i64(len) ELSE as_off_t(len)

\* C13: on the posix_fallocate, F_PREALLOCATE and Windows builds, from every
\* file state (sparse files included) and for every len, after allocate has
\* returned Ok allocated_size(file) >= len and the file's length >= len.
C13_AllocatePostcondition ==
    alast.res = "Ok" =>
        (allocated_size(file) >= AskedLen /\ file.size >= AskedLen)

\* C14: an allocate call with len below the allocation the file has returns Ok
\* and leaves the file as it is; no allocate call, whatever it returns, leaves
\* the file with less allocation or a smaller length than before.
C14_AllocateMonotone ==
    [][/\ alast'.len < allocated_size(file) => (alast'.res = "Ok" /\ file' = file)
       /\ allocated_size(file') >= allocated_size(file)
       /\ file'.size >= file.size
      ]_vars

\* C15: an allocate call that returns Ok has handed the operating system the
\* length it was asked for, not a length changed by the cast to off_t / i64,
\* and has left the file with at least that many bytes allocated.
C15_NoSilentTruncation ==
    [][alast'.res = "Ok" =>
          /\ (alast'.len > allocated_size(file) => PassedLen(alast'.len) = alast'.len)
          /\ allocated_size(file') >= alast'.len
      ]_vars

\* C16: when posix_fallocate has failed with error e, allocate returns the
\* error e, whatever errno held before the call.
C16_ErrorCodePreserved ==
    (platform \in {"linux64", "linux32"} /\ alast.native # NoErrno) =>
        alast.res = alast.native

\* The number of locks in l, and the locks handle h would have to add for a
\* whole-file exclusive lock of its own.
Count(l) == l.x + l.s
WinTryExclusive(w, h) ==
    LockFileEx(w, h, {LOCKFILE_EXCLUSIVE_LOCK, LOCKFILE_FAIL_IMMEDIATELY})
WinAcquireOps == {"lock_shared", "lock_exclusive", "try_lock_shared", "try_lock_exclusive"}

\* C18: on Windows, for a handle A and a duplicate A2 of it: a lock call through
\* A adds nothing to the locks of A2; while A holds a lock, try_lock_exclusive
\* through A2 fails with lock_contended_error() and gives A2 no lock; and once
\* A.unlock() has left the file without locks, an exclusive request through A2
\* is granted at once.
C18_DuplicateLocksIndependent ==
    [][\A a, a2 \in OpenRefs :
        (a # a2 /\ ofd[a] = ofd[a2]) =>
            /\ \A op \in WinAcquireOps :
                  Returns(a, op) => wlocks'.by[a2] = wlocks.by[a2]
            /\ (Returns(a2, "try_lock_exclusive") /\ wlocks.by[a] # NoLocks) =>
                  /\ last'.res = lock_contended_error
                  /\ wlocks'.by[a2] = wlocks.by[a2]
            /\ (Returns(a, "unlock") /\ CountLocks(wlocks', Refs) = 0) =>
                  /\ last'.res = "Ok"
                  /\ WinTryExclusive(wlocks', a2).errno = NoErrno
                  /\ WinTryExclusive(wlocks', a2).table.by[a2] = [x |-> 1, s |-> 0]
      ]_vars

\* C18 witness: try_lock_exclusive through a duplicate has been refused while
\* the only lock on the file is a shared lock of the handle it was made from.
C18_Witness ==
    /\ last.op = "try_lock_exclusive" /\ last.res = lock_contended_error
    /\ wlocks.by[last.ref] = NoLocks
    /\ \E a \in OpenRefs \ {last.ref} :
          /\ ofd[a] = ofd[last.ref]
          /\ wlocks.by[a] = [x |-> 0, s |-> 1]
          /\ CountLocks(wlocks, Refs) = 1

WithoutLocksOf(w, r) ==
    [by |-> [w.by EXCEPT ![r] = NoLocks], left |-> [w.left EXCEPT ![ofd[r]] = NoLocks]]

\* C21: on Windows, closing a handle that has no duplicate open releases every
\* lock placed through it (and through its duplicates closed before), so that
\* lock_exclusive of another handle is granted when no other lock is on the
\* file; closing a handle that holds a lock and has a duplicate open leaves the
\* lock on the file, and try_lock_exclusive through the surviving duplicate
\* fails with lock_contended_error().  No lock outlives the last handle of its
\* file object.
C21_LocksLiveUntilLastDuplicateCloses ==
    /\ [](\A g \in Refs :
            /\ wlocks.by[g] # NoLocks => g \in OpenRefs
            /\ wlocks.left[g] # NoLocks => RefsOf(g) # {})
    /\ [][\A r \in Refs :
            Returns(r, "close") =>
                IF RefsOf(ofd[r]) = {r}
                THEN /\ CountLocks(wlocks', Refs) = CountLocks(WithoutLocksOf(wlocks, r), Refs)
                     /\ \A b \in OpenRefs \ {r} :
                           /\ wlocks'.by[b] = wlocks.by[b]
                           /\ CountLocks(WithoutLocksOf(wlocks, r), Refs) = 0 =>
                                 /\ ~LockFileEx(wlocks', b, {LOCKFILE_EXCLUSIVE_LOCK}).sleep
                                 /\ LockFileEx(wlocks', b, {LOCKFILE_EXCLUSIVE_LOCK}).errno = NoErrno
                ELSE (wlocks.by[r] # NoLocks \/ wlocks.left[ofd[r]] # NoLocks) =>
                        \A a2 \in OpenRefs \ {r} :
                            ofd[a2] = ofd[r] =>
                                /\ WinTryExclusive(wlocks', a2).errno = lock_contended_error
                                /\ wlocks'.by[a2] = wlocks.by[a2]
         ]_vars

\* C21 witness: a handle that held the only lock on the file has been closed
\* while its duplicate is open; the duplicate holds no lock of its own, is free
\* to call, and the lock is still on the file.
C21_Witness ==
    /\ last.op = "close"
    /\ \A g \in Refs : wlocks.by[g] = NoLocks
    /\ \E a2 \in OpenRefs :
          /\ CanCall(a2)
          /\ RefsOf(ofd[a2]) = {a2}
          /\ wlocks.left[ofd[a2]] = [x |-> 0, s |-> 1]
          /\ CountLocks(wlocks, Refs) = 1

\* C22: under flock, when references A and B, opened independently, both hold
\* Shared and B calls try_lock_exclusive, the call returns at once with
\* lock_error() and B's description is left without its Shared lock; A's
\* description keeps Shared, and a lock_shared of A that follows is granted
\* without waiting.
C22_FailedUpgradeDropsLock ==
    [][\A a, b \in OpenRefs :
        (/\ ofd[a] # ofd[b]
         /\ flocks[ofd[a]] = Shared /\ flocks[ofd[b]] = Shared
         /\ Returns(b, "try_lock_exclusive")) =>
            /\ last'.res = lock_error /\ ~last'.waited
            /\ flocks'[ofd[b]] = None
            /\ flocks'[ofd[a]] = Shared
            /\ KFlock(flocks', ofd[a], {LOCK_SH}) = KOk(flocks')
      ]_vars

\* C22 witness: try_lock_exclusive has been refused on a reference that held
\* Shared and holds nothing now, while an independently opened reference holds
\* Shared and is free to call.
C22_Witness ==
    /\ last.op = "try_lock_exclusive" /\ last.res = lock_error /\ last.pre = Shared
    /\ flocks[ofd[last.ref]] = None
    /\ \E a \in OpenRefs :
          /\ ofd[a] # ofd[last.ref]
          /\ flocks[ofd[a]] = Shared
          /\ CanCall(a)

\* The F_PREALLOCATE requests among the system calls of an allocate call, and
\* whether the preallocation step failed: its last request came back with an
\* error.
PreallocCalls(calls) == SelectSeq(calls, LAMBDA c : c.call # "set_len")
PreallocFailed(calls) ==
    LET p == PreallocCalls(calls)
    IN  p # <<>> /\ p[Len(p)].err # NoErrno

\* C23: allocate of the F_PREALLOCATE build.  No F_PREALLOCATE request is made
\* exactly when the blocks of the file already hold len bytes or more;
\* otherwise the first request is F_ALLOCATECONTIG, and an F_ALLOCATEALL
\* request for the same length follows exactly when the first one failed; the
\* preallocation step fails, and allocate with it, exactly when both requests
\* failed; and when the step did not fail, set_len(len) is called exactly when
\* the file was shorter than len, leaving it len bytes long (allocate returns
\* what set_len returns), and the length is not touched otherwise.
C23_MacosAllocateAlgorithm ==
    [][LET calls == alast'.calls
           len == alast'.len
           p == PreallocCalls(alast'.calls)
       IN  /\ (p = <<>>) <=> (allocated_size(file) >= len)
           /\ p # <<>> =>
                 /\ p[1].call = F_ALLOCATECONTIG
                 /\ Len(p) <= 2
                 /\ (Len(p) = 2) <=> (p[1].err # NoErrno)
                 /\ Len(p) = 2 => (p[2].call = F_ALLOCATEALL /\ p[2].arg = p[1].arg)
           /\ PreallocFailed(calls) <=>
                 (Len(p) = 2 /\ p[1].err # NoErrno /\ p[2].err # NoErrno)
           /\ PreallocFailed(calls) =>
                 (alast'.res # "Ok" /\ calls = p /\ file' = file)
           /\ (alast'.res # "Ok" /\ calls = p) => PreallocFailed(calls)
           /\ ~PreallocFailed(calls) =>
                 /\ (calls # p) <=> (file.size < len)
                 /\ calls # p =>
                       LET t == calls[Len(calls)]
                       IN  /\ Len(calls) = Len(p) + 1
                           /\ t.call = "set_len" /\ t.arg = len
                           /\ alast'.res = (IF t.err = NoErrno THEN "Ok" ELSE t.err)
                           /\ t.err = NoErrno => file'.size = len
                 /\ calls = p => (alast'.res = "Ok" /\ file'.size = file.size)
      ]_vars

\* C23 witness: an allocate call whose contiguous request failed, whose
\* non-contiguous request was granted and which then grew the file to len.
C23_Witness ==
    /\ platform = "macos"
    /\ alast.res = "Ok"
    /\ Len(alast.calls) = 3
    /\ alast.calls[1].call = F_ALLOCATECONTIG /\ alast.calls[1].err # NoErrno
    /\ alast.calls[2].call = F_ALLOCATEALL /\ alast.calls[2].err = NoErrno
    /\ alast.calls[3].call = "set_len" /\ alast.calls[3].err = NoErrno
    /\ file.size = alast.len
    /\ allocated_size(file) >= alast.len

\* C24: the flock emulation of the Solaris build, for every flag word.  After
\* LOCK_NB is cleared, an operation of exactly LOCK_SH, LOCK_EX or LOCK_UN makes
\* one fcntl request: with the command F_SETLK exactly when LOCK_NB is set in
\* the flag word and F_SETLKW otherwise, with the type F_RDLCK, F_WRLCK or
\* F_UNLCK respectively, over the whole file (l_whence SEEK_SET, l_start 0,
\* l_len 0).  Any other operation returns EINVAL with no fcntl request made and
\* nothing changed.
C24_SolarisMapping ==
    /\ [](last.op = "flock" =>
            LET operation == last.flag \ {LOCK_NB}
            IN  IF operation \in {{LOCK_SH}, {LOCK_EX}, {LOCK_UN}}
                THEN /\ last.nsys = 1
                     /\ last.fcntl.cmd = (IF LOCK_NB \in last.flag THEN F_SETLK ELSE F_SETLKW)
                     /\ operation = {LOCK_SH} => last.fcntl.l_type = F_RDLCK
                     /\ operation = {LOCK_EX} => last.fcntl.l_type = F_WRLCK
                     /\ operation = {LOCK_UN} => last.fcntl.l_type = F_UNLCK
                     /\ last.fcntl.l_whence = 0
                     /\ last.fcntl.l_start = 0 /\ last.fcntl.l_len = 0
                ELSE /\ last.res = EINVAL
                     /\ last.nsys = 0
                     /\ last.fcntl = NoFcntl)
    /\ [][\A r \in Refs :
            (Returns(r, "flock") /\ last'.res = EINVAL) =>
                (plocks' = plocks /\ call' = call /\ ofd' = ofd)
         ]_vars

\* C24 witness: a call with LOCK_EX | LOCK_NB made an F_SETLK request for a
\* write lock on the whole file, which was refused because another process
\* holds a lock.
C24_Witness ==
    /\ platform = "solaris"
    /\ last.op = "flock" /\ last.flag = {LOCK_EX, LOCK_NB}
    /\ last.fcntl = [cmd |-> F_SETLK, l_type |-> F_WRLCK,
                     l_whence |-> 0, l_start |-> 0, l_len |-> 0]
    /\ last.res = lock_error
    /\ \E p \in Threads : p # PidOf(last.ref) /\ plocks[p] # None

\* The flag word of each wrapper, and what the caller sees of a kernel's answer.
FlagOfOp(op) ==
    CASE op = "lock_shared" -> {LOCK_SH}
      [] op = "lock_exclusive" -> {LOCK_EX}
      [] op = "try_lock_shared" -> {LOCK_SH, LOCK_NB}
      [] op = "try_lock_exclusive" -> {LOCK_EX, LOCK_NB}
      [] OTHER -> {LOCK_UN}
Outcome(k) == IF k.sleep THEN "waits" ELSE IF k.errno = NoErrno THEN "Ok" ELSE "Contended"
NativeOutcome(r, op) == Outcome(KFlock(flocks, ofd[r], FlagOfOp(op)))
EmulatedOutcomes(r, op) ==
    {Outcome(KFcntl(plocks, PidOf(r), SolarisCmd(FlagOfOp(op)),
                    SolarisLType(SolarisOperation(FlagOfOp(op))), busy)) :
        busy \in FcntlBusyErrnos}

\* C25: the native build and the Solaris emulation, given the same sequence of
\* lock_shared, lock_exclusive, try_lock_*, unlock, duplicate and close calls on
\* references to one file (two of them opened independently by one process
\* included), answer every call alike: both Ok, both Contended, or both make
\* the caller wait, and a waiting call is granted by both at the same point.
C25_EmulationMatchesFlock ==
    [][\A r \in Refs :
        /\ \A op \in LockOps :
              Enters(r, op) => EmulatedOutcomes(r, op) = {NativeOutcome(r, op)}
        /\ (call[r] # Idle /\ call'[r] = Idle) =>
              ~FcntlConflict(plocks, PidOf(r), ModeOfFlag(call[r].flag))
      ]_vars

\* The kernel can grant the suspended call of r: no other description holds a
\* conflicting lock.
Grantable(r) ==
    call[r] # Idle /\ ~FlockConflict(flocks, ofd[r], ModeOfFlag(call[r].flag))
\* No description but those of a and b holds a lock.
OnlyBetween(a, b) == \A o \in Refs \ {ofd[a], ofd[b]} : flocks[o] = None

\* C26: under flock, for references A and B opened independently and used from
\* different threads.  When both hold Shared and nobody else holds a lock, the
\* lock_exclusive called first gives up its Shared lock and waits; the
\* lock_exclusive of the other, called while the first one waits, is granted at
\* once; and when the holder unlocks while the first call still waits, nothing
\* conflicts with that call any more: the kernel can grant it, and grants it
\* Exclusive when it does.  So the two calls never wait for each other.
C26_NoUpgradeDeadlock ==
    [][\A a \in OpenRefs :
        /\ \A b \in OpenRefs :
              (/\ flocks[ofd[b]] # None
               /\ ofd[a] # ofd[b] /\ ThreadOf(a) # ThreadOf(b)
               /\ OnlyBetween(a, b)) =>
                  /\ (/\ flocks[ofd[a]] = Shared /\ flocks[ofd[b]] = Shared
                      /\ Enters(a, "lock_exclusive")) =>
                         /\ call'[a].op = "lock_exclusive"
                         /\ flocks'[ofd[a]] = None
                         /\ flocks'[ofd[b]] = Shared
                  /\ (/\ call[a].op = "lock_exclusive" /\ flocks[ofd[a]] = None
                      /\ flocks[ofd[b]] = Shared
                      /\ Enters(b, "lock_exclusive")) =>
                         /\ Returns(b, "lock_exclusive")
                         /\ last'.res = "Ok" /\ ~last'.waited
                         /\ flocks'[ofd[b]] = Exclusive
                         /\ call'[a] = call[a]
                  /\ (/\ call[a].op = "lock_exclusive" /\ flocks[ofd[a]] = None
                      /\ flocks[ofd[b]] = Exclusive
                      /\ Returns(b, "unlock")) =>
                         /\ last'.res = "Ok"
                         /\ call'[a] = call[a]
                         /\ Grantable(a)'
        /\ (/\ call[a].op = "lock_exclusive" /\ flocks[ofd[a]] = None
            /\ Grantable(a)
            /\ call'[a] = Idle /\ last'.native = NoErrno) =>
               /\ last'.ref = a /\ last'.res = "Ok" /\ last'.waited
               /\ flocks'[ofd[a]] = Exclusive
      ]_vars

\* C26 witness: of two references that held Shared, one waits in lock_exclusive
\* without a lock and the other, on another thread, has just been granted
\* Exclusive at its call.
C26_Witness ==
    /\ last.op = "lock_exclusive" /\ last.res = "Ok" /\ ~last.waited
    /\ last.pre = Shared
    /\ flocks[ofd[last.ref]] = Exclusive
    /\ \E a \in OpenRefs :
          /\ ofd[a] # ofd[last.ref] /\ ThreadOf(a) # ThreadOf(last.ref)
          /\ call[a].op = "lock_exclusive"
          /\ flocks[ofd[a]] = None
          /\ OnlyBetween(a, last.ref)

====
